---- MODULE Spec2Model ----
(***************************************************************************)
(* The markdown -> Atlassian Document Format converter of jira-api-cli     *)
(* (markdown-to-adf: markdownToAdf, parseInlineMarkdown, textToAdf) and    *)
(* its caller JiraUtil.addComment, as a state machine.                     *)
(*                                                                         *)
(* A string is a sequence of one-character strings.  The line cursor i     *)
(* and every index returned by a search are 0-based, as in the source;     *)
(* sequences are 1-based, so lines[i] of the source is lines[i + 1] here.  *)
(***************************************************************************)
EXTENDS Integers, Sequences, FiniteSets, TLC

\* ------------------------------------------------------------------ bounds

\* inline tokens per single-line input
MaxToks == 5
\* lines per multi-line input
MaxLines == 3
\* runs the nodes array of one scan can hold before the heap is exhausted
MaxNodes == 6
\* conversions begun in one behaviour of the two-call specification
MaxCalls == 3

\* ------------------------------------------------------- string primitives

\* the characters \s matches, among those the inputs are drawn from
WhiteSpace == {" ", "\t"}

\* \d
Digits == {"0", "1", "2", "3", "4", "5", "6", "7", "8", "9"}

\* the characters . does not match
LineTerminators == {"\n", "\r"}

\* s.slice(n)
Drop(s, n) == SubSeq(s, n + 1, Len(s))

\* s.slice(0, n)
Take(s, n) == SubSeq(s, 1, n)

\* s.startsWith(p)
StartsWith(s, p) == Len(s) >= Len(p) /\ SubSeq(s, 1, Len(p)) = p

\* 1-based position of the first character of s at or after from that is in C, 0 if none
IndexOf(s, C, from) ==
    IF \E k \in from..Len(s) : s[k] \in C
    THEN CHOOSE k \in from..Len(s) : s[k] \in C /\ \A j \in from..(k - 1) : s[j] \notin C
    ELSE 0

\* number of leading characters of s that are in C (a greedy C* at the start)
LeadingCount(s, C) ==
    IF \E k \in 1..Len(s) : s[k] \notin C
    THEN (CHOOSE k \in 1..Len(s) : s[k] \notin C /\ \A j \in 1..(k - 1) : s[j] \in C) - 1
    ELSE Len(s)

\* number of trailing characters of s that are in C
TrailingCount(s, C) ==
    IF \E k \in 1..Len(s) : s[k] \notin C
    THEN Len(s) - (CHOOSE k \in 1..Len(s) : s[k] \notin C /\ \A j \in (k + 1)..Len(s) : s[j] \in C)
    ELSE Len(s)

\* s.trim()
Trim(s) ==
    IF LeadingCount(s, WhiteSpace) = Len(s)
    THEN << >>
    ELSE SubSeq(s, LeadingCount(s, WhiteSpace) + 1, Len(s) - TrailingCount(s, WhiteSpace))

\* s.split('\n'): the pieces of s between its newlines, one more than there are
\* newlines
Split(s) ==
    LET nl       == {k \in 1..Len(s) : s[k] = "\n"}
        n        == Cardinality(nl)
        Break(j) == IF j = 0 THEN 0
                    ELSE IF j = n + 1 THEN Len(s) + 1
                    ELSE CHOOSE k \in nl : Cardinality({m \in nl : m <= k}) = j
    IN  [j \in 1..(n + 1) |-> SubSeq(s, Break(j - 1) + 1, Break(j) - 1)]

\* ls.join('\n')
RECURSIVE JoinNL(_)
JoinNL(ls) ==
    IF ls = << >> THEN << >>
    ELSE IF Len(ls) = 1 THEN ls[1]
    ELSE ls[1] \o <<"\n">> \o JoinNL(Tail(ls))

\* IsBlank without the trim
IsBlankNoTrim(line) == line = << >>

\* line.trim() === ''
IsBlank(line) == Trim(line) = << >>

\* ------------------------------------------------- the block-level patterns

NoMatch == [matched |-> FALSE]

\* HeadingMatch with the pattern #{1,7}
HeadingMatchSeven(line) ==
    LET h     == LeadingCount(line, {"#"})
        rest  == Drop(line, h)
        w     == LeadingCount(rest, WhiteSpace)
        after == Drop(rest, w)
        text  == IF after # << >> THEN after ELSE Drop(rest, w - 1)
    IN  IF /\ h \in 1..7
           /\ w >= 1
           /\ (after # << >> \/ w >= 2)
           /\ \A k \in 1..Len(text) : text[k] \notin LineTerminators
        THEN [matched |-> TRUE, level |-> h, text |-> text]
        ELSE NoMatch

\* line.match(/^(#{1,6})\s+(.+)$/): #{1,6} must take every leading # (the next
\* character has to be white space), \s+ is greedy and gives one character back
\* to .+ only when nothing else follows it
HeadingMatch(line) ==
    LET h     == LeadingCount(line, {"#"})
        rest  == Drop(line, h)
        w     == LeadingCount(rest, WhiteSpace)
        after == Drop(rest, w)
        text  == IF after # << >> THEN after ELSE Drop(rest, w - 1)
    IN  IF /\ h \in 1..6
           /\ w >= 1
           /\ (after # << >> \/ w >= 2)
           /\ \A k \in 1..Len(text) : text[k] \notin LineTerminators
        THEN [matched |-> TRUE, level |-> h, text |-> text]
        ELSE NoMatch

\* the backtick character U+0060, which a TLA+ string cannot hold
BT == "bt"

\* the three backticks of a fence
Fence == <<BT, BT, BT>>

\* line.startsWith(three backticks)
IsFence(line) == StartsWith(line, Fence)

\* FenceLanguage without the trim
FenceLanguageRaw(line) == Drop(line, 3)

\* line.slice(3).trim()
FenceLanguage(line) == Trim(Drop(line, 3))

\* [\*\-\+]
BulletMarkers == {"*", "-", "+"}

\* the bullet pattern with leading white space allowed, /^\s*[\*\-\+]\s+/
BulletMatchIndented(line) ==
    LET t == Drop(line, LeadingCount(line, WhiteSpace))
    IN  Len(t) >= 2 /\ t[1] \in BulletMarkers /\ t[2] \in WhiteSpace

\* the bullet pattern with text required after the spaces, /^[\*\-\+]\s+\S/
BulletMatchWithText(line) ==
    /\ Len(line) >= 2 /\ line[1] \in BulletMarkers /\ line[2] \in WhiteSpace
    /\ \E k \in 3..Len(line) : line[k] \notin WhiteSpace

\* line.match(/^[\*\-\+]\s+/)
BulletMatch(line) == Len(line) >= 2 /\ line[1] \in BulletMarkers /\ line[2] \in WhiteSpace

\* line.replace(/^[\*\-\+]\s+/, '') for a line that matches
BulletText(line) == Drop(line, 1 + LeadingCount(Drop(line, 1), WhiteSpace))

\* the ordered pattern without its anchor, /\d+\.\s+/
OrderedMatchAnywhere(line) ==
    \E s \in 0..Len(line) :
       LET rest == Drop(line, s)
           d    == LeadingCount(rest, Digits)
       IN  d >= 1 /\ Len(rest) >= d + 2 /\ rest[d + 1] = "." /\ rest[d + 2] \in WhiteSpace

\* line.match(/^\d+\.\s+/)
OrderedMatch(line) ==
    LET d == LeadingCount(line, Digits)
    IN  d >= 1 /\ Len(line) >= d + 2 /\ line[d + 1] = "." /\ line[d + 2] \in WhiteSpace

\* OrderedText that strips the number and the dot only
OrderedTextKeepSpace(line) == Drop(line, LeadingCount(line, Digits) + 1)

\* line.replace(/^\d+\.\s+/, '') for a line that matches
OrderedText(line) ==
    LET d == LeadingCount(line, Digits)
    IN  Drop(line, d + 1 + LeadingCount(Drop(line, d + 1), WhiteSpace))

\* ------------------------------------------------------ the inline patterns

\* remaining.match(/^\*\*([^*]+)\*\*/): [^*]+ runs to the first * after the
\* opening pair, which must open the closing pair; len is the match's length
BoldMatch(r) ==
    LET k == IndexOf(r, {"*"}, 3)
    IN  IF StartsWith(r, <<"*", "*">>) /\ k >= 4 /\ k + 1 <= Len(r) /\ r[k + 1] = "*"
        THEN [matched |-> TRUE, len |-> k + 1, text |-> SubSeq(r, 3, k - 1)]
        ELSE NoMatch

\* remaining.match(/^\*([^*]+)\*/)
ItalicMatch(r) ==
    LET k == IndexOf(r, {"*"}, 2)
    IN  IF StartsWith(r, <<"*">>) /\ k >= 3
        THEN [matched |-> TRUE, len |-> k, text |-> SubSeq(r, 2, k - 1)]
        ELSE NoMatch

\* remaining.match(/^BT([^BT]+)BT/)
CodeMatch(r) ==
    LET k == IndexOf(r, {BT}, 2)
    IN  IF StartsWith(r, <<BT>>) /\ k >= 3
        THEN [matched |-> TRUE, len |-> k, text |-> SubSeq(r, 2, k - 1)]
        ELSE NoMatch

\* LinkMatch with the two capture groups taken in the wrong order
LinkMatchSwapped(r) ==
    LET k == IndexOf(r, {"]"}, 2)
        m == IndexOf(r, {")"}, k + 2)
    IN  IF /\ StartsWith(r, <<"[">>)
           /\ k >= 3
           /\ k + 1 <= Len(r)
           /\ r[k + 1] = "("
           /\ m >= k + 3
        THEN [matched |-> TRUE, len |-> m, text |-> SubSeq(r, k + 2, m - 1),
              href |-> SubSeq(r, 2, k - 1)]
        ELSE NoMatch

\* remaining.match(/^\[([^\]]+)\]\(([^)]+)\)/)
LinkMatch(r) ==
    LET k == IndexOf(r, {"]"}, 2)
        m == IndexOf(r, {")"}, k + 2)
    IN  IF /\ StartsWith(r, <<"[">>)
           /\ k >= 3
           /\ k + 1 <= Len(r)
           /\ r[k + 1] = "("
           /\ m >= k + 3
        THEN [matched |-> TRUE, len |-> m, text |-> SubSeq(r, 2, k - 1),
              href |-> SubSeq(r, k + 2, m - 1)]
        ELSE NoMatch

\* [\*BT\[]
SpecialChars == {"*", BT, "["}

\* remaining.search(/[\*BT\[]/): 0-based, -1 when there is none
NextSpecial(r) == IndexOf(r, SpecialChars, 1) - 1

\* ------------------------------------------------------------ the ADF nodes

\* { type: 'text', text }
TextNode(t) == [type |-> "text", text |-> t]

\* MarkedNode that puts the mark on top of an em mark
MarkedNodeNested(t, mark) ==
    [type |-> "text", text |-> t, marks |-> <<mark, [type |-> "em"]>>]

\* { type: 'text', text, marks: [mark] }
MarkedNode(t, mark) == [type |-> "text", text |-> t, marks |-> <<mark>>]

\* StrongMark that reads the double asterisk as the single one
StrongMarkAsEm == [type |-> "em"]

\* marks: [{ type: 'strong' }]
StrongMark == [type |-> "strong"]

EmMark == [type |-> "em"]

CodeMark == [type |-> "code"]

\* { type: 'link', attrs: { href } }
LinkMark(href) == [type |-> "link", attrs |-> [href |-> href]]

\* { type: 'paragraph', content }
Paragraph(inl) == [type |-> "paragraph", content |-> inl]

\* { type: 'heading', attrs: { level }, content }
Heading(lvl, inl) == [type |-> "heading", attrs |-> [level |-> lvl], content |-> inl]

\* ListItem that holds the inline nodes without a Paragraph around them
ListItemBare(inl) == [type |-> "listItem", content |-> inl]

\* { type: 'listItem', content: [paragraph] }
ListItem(inl) == [type |-> "listItem", content |-> <<Paragraph(inl)>>]

\* { type: 'bulletList', content: listItems }
BulletList(items) == [type |-> "bulletList", content |-> items]

\* { type: 'orderedList', content: listItems }
OrderedList(items) == [type |-> "orderedList", content |-> items]

\* attrs: language ? { language } : {}   (an object with no key is the empty function)
CodeAttrs(language) == IF language # << >> THEN [language |-> language] ELSE << >>

\* { type: 'codeBlock', attrs, content: [{ type: 'text', text: codeLines.join('\n') }] }
CodeBlock(language, codeLines) ==
    [type |-> "codeBlock", attrs |-> CodeAttrs(language),
     content |-> <<TextNode(JoinNL(codeLines))>>]

\* { type: 'doc', version: 1, content }
Document(blocks) == [type |-> "doc", version |-> 1, content |-> blocks]

\* ---------------------------------------------------------------- the state

VARIABLES
    markdown,     \* addComment's body argument
    markdownArg,  \* what the caller passes for addComment's markdown parameter
    useMarkdown,  \* addComment's markdown parameter, as bound on entry
    pc,           \* where control is: start, top, bullet, ordered, scan, break, done, aborted
    lines,        \* markdownToAdf: markdown.split('\n')
    i,            \* markdownToAdf: the line cursor
    content,      \* markdownToAdf: the blocks pushed so far
    origin,       \* history: for each block of content, <<i when its branch began, i when it ended>>
    runStart,     \* history: i when the list run in progress began
    listItems,    \* markdownToAdf: the items of the list run in progress
    caller,       \* the call site parseInlineMarkdown returns to
    level,        \* markdownToAdf: headingMatch[1].length of the heading in progress
    text,         \* parseInlineMarkdown: its argument
    remaining,    \* parseInlineMarkdown: the text not consumed yet
    nodes,        \* parseInlineMarkdown: the runs collected so far
    result,       \* the Document handed to client.issueComments.addComment
    parked,       \* the variables above of a second call whose steps interleave with this one's
    clean,        \* history: no step of another call has run since this call began
    alone,        \* history: <<body, flag, pc, result>> of the calls that ended clean
    calls         \* the number of calls begun so far

\* what a call does not own
callVars == <<parked, clean, alone, calls>>

vars == <<callVars, markdown, markdownArg, useMarkdown, pc, lines, i, content, origin, runStart, listItems,
          caller, level, text, remaining, nodes, result>>

segVars == <<lines, i, content, origin, runStart, listItems, level>>

scanVars == <<caller, text, remaining, nodes>>

NoResult == [type |-> "none"]

\* the value of parked when there is no second call
NoCall == [pc |-> "none"]

\* ----------------------------------------------------------------- the inputs

\* the pieces single-line inputs are built from
InlineTokens == {<<"*">>, <<BT>>, <<"[">>, <<"]", "(">>, <<")">>, <<"a">>}

RECURSIVE Flatten(_)
Flatten(ss) == IF ss = << >> THEN << >> ELSE ss[1] \o Flatten(Tail(ss))

\* every concatenation of at most MaxToks tokens
InlineInputs == {Flatten(f) : f \in UNION {[1..n -> InlineTokens] : n \in 0..MaxToks}}

\* the lines multi-line inputs are built from
BlockLines ==
    { << >>,
      <<" ">>,
      <<"#", " ", "*", "b", "*">>,
      <<"#", "#", " ", "h", "*", "*", "s", "*", "*">>,
      <<"#", "#", "#", "#", "#", "#", "#", " ", "x">>,
      Fence,
      Fence \o <<" ", "j", " ">>,
      <<"-", " ", "a">>,
      <<"*", " ", "*", "b", "*">>,
      <<"+", " ", "c", "*">>,
      <<" ", " ", "-", " ", "d">>,
      <<"1", ".", " ", "*", "b", "*">>,
      <<"1", "0", ".", " ", "f">>,
      <<"2", ".", " ", "g", "[">>,
      <<"p">> }

\* every text of at most MaxLines such lines
BlockInputs == {JoinNL(f) : f \in UNION {[1..n -> BlockLines] : n \in 1..MaxLines}}

\* longer texts: two fenced blocks with a plain line between them, the closing
\* fence lines carrying text; four fence lines in a row; and bullet runs ended
\* by a blank line, an ordered item, a fence, a plain line, an ordered run ended
\* by a heading; list markers with nothing after their spaces; and lines in
\* which one kind's prefix is followed by another's
LongInputs ==
    { JoinNL(<<Fence, <<"p">>, Fence \o <<" ", "j", " ">>, <<"p">>,
               Fence \o <<" ", "j", " ">>, <<"p">>, Fence \o <<"p">>>>),
      JoinNL(<<Fence, Fence, Fence, Fence>>),
      JoinNL(<<<<"-", " ", "a">>, << >>, <<"*", " ", "*", "b", "*">>,
               <<"1", ".", " ", "*", "b", "*">>, <<"#", " ", "*", "b", "*">>,
               <<"-", " ", "a">>, Fence, Fence, <<"-", " ", "a">>, <<"p">>>>),
      <<"-", " ">>,
      <<"-">>,
      <<"1", ".", " ">>,
      JoinNL(<<<<"-", " ", "a">>, <<"+", " ", " ">>, <<"1", ".", " ">>, <<"2", ".", " ", "*", "b", "*">>>>),
      JoinNL(<<<<"#", " ", "1", ".", " ", "x">>, <<"-", " ", "#", " ", "h">>,
               <<"1", ".", " ", "-", " ", "a">>, <<" ", "#", " ", "h">>, <<"#">>,
               <<"#", "-", " ", "a">>, <<"1", ".", "#", " ", "h">>>>) }

Inputs == InlineInputs \cup BlockInputs \cup LongInputs

\* what a caller can pass for the optional boolean parameter
MarkdownArgs == {"true", "false", "omitted"}

\* MarkdownParam for a declaration markdown = true
MarkdownParamDefaultTrue(arg) == arg # "false"

\* the parameter declaration markdown = false: an omitted argument binds false
MarkdownParam(arg) == IF arg = "omitted" THEN FALSE ELSE arg = "true"

Init ==
    /\ markdown \in Inputs
    /\ markdownArg \in MarkdownArgs
    /\ useMarkdown = MarkdownParam(markdownArg)
    /\ pc = "start"
    /\ lines = << >>
    /\ i = 0
    /\ content = << >>
    /\ origin = << >>
    /\ runStart = 0
    /\ listItems = << >>
    /\ caller = "none"
    /\ level = 0
    /\ text = << >>
    /\ remaining = << >>
    /\ nodes = << >>
    /\ result = NoResult
    /\ parked = NoCall
    /\ clean = TRUE
    /\ alone = {}
    /\ calls = 1

\* ------------------------------------------------------------------ textToAdf

\* NonBlankLines that keeps the trimmed lines
NonBlankLinesTrimmed(t) ==
    LET kept == SelectSeq(Split(t), LAMBDA line : ~IsBlank(line))
    IN  [k \in 1..Len(kept) |-> Trim(kept[k])]

\* text.split('\n').filter(line => line.trim() !== '')
NonBlankLines(t) == SelectSeq(Split(t), LAMBDA line : ~IsBlank(line))

\* textToAdf(text)
TextToAdf(t) ==
    LET paragraphs == NonBlankLines(t)
    IN  IF Len(paragraphs) = 0
        THEN Document(<<Paragraph(<< >>)>>)
        ELSE Document([k \in 1..Len(paragraphs) |-> Paragraph(<<TextNode(paragraphs[k])>>)])

\* addComment with markdown false: bodyContent = textToAdf(body)
CallTextToAdf ==
    /\ pc = "start"
    /\ ~useMarkdown
    /\ result' = TextToAdf(markdown)
    /\ pc' = "done"
    /\ UNCHANGED <<callVars, markdown, markdownArg, useMarkdown>>
    /\ UNCHANGED segVars
    /\ UNCHANGED scanVars

\* ------------------------------------------------- markdownToAdf, the segmenter

\* lines[i]
CurLine == lines[i + 1]

\* addComment with markdown true: enters markdownToAdf(body)
CallMarkdownToAdf ==
    /\ pc = "start"
    /\ useMarkdown
    /\ lines' = Split(markdown)
    /\ i' = 0
    /\ content' = << >>
    /\ pc' = "top"
    /\ UNCHANGED <<callVars, markdown, markdownArg, useMarkdown, origin, runStart, listItems, level, result>>
    /\ UNCHANGED scanVars

\* the call parseInlineMarkdown(t) from call site site
EnterScan(t, site) ==
    /\ pc' = "scan"
    /\ caller' = site
    /\ text' = t
    /\ remaining' = t
    /\ nodes' = << >>

\* the return of parseInlineMarkdown: its locals are gone
LeaveScan ==
    /\ caller' = "none"
    /\ text' = << >>
    /\ remaining' = << >>
    /\ nodes' = << >>

\* the outer loop is at a line
AtLine == pc = "top" /\ i < Len(lines)

\* SkipBlank that advances the cursor by two
SkipBlankTwice ==
    /\ AtLine
    /\ IsBlank(CurLine)
    /\ i' = i + 2
    /\ UNCHANGED <<callVars, markdown, markdownArg, useMarkdown, pc, lines, content, origin, runStart, listItems,
                   level, result>>
    /\ UNCHANGED scanVars

\* if (line.trim() === '') { i++; continue; }
SkipBlank ==
    /\ AtLine
    /\ IsBlank(CurLine)
    /\ i' = i + 1
    /\ UNCHANGED <<callVars, markdown, markdownArg, useMarkdown, pc, lines, content, origin, runStart, listItems,
                   level, result>>
    /\ UNCHANGED scanVars

\* if (headingMatch): evaluates parseInlineMarkdown(headingMatch[2])
HeadingLine ==
    /\ AtLine
    /\ ~IsBlank(CurLine)
    /\ HeadingMatch(CurLine).matched
    /\ level' = HeadingMatch(CurLine).level
    /\ EnterScan(HeadingMatch(CurLine).text, "heading")
    /\ UNCHANGED <<callVars, markdown, markdownArg, useMarkdown, lines, i, content, origin, runStart, listItems,
                   result>>

\* FenceClose whose search stops one line short of the end of the input
FenceCloseShort(ls, open) ==
    IF \E k \in (open + 1)..(Len(ls) - 1) : IsFence(ls[k + 1])
    THEN CHOOSE k \in (open + 1)..(Len(ls) - 1) :
            IsFence(ls[k + 1]) /\ \A j \in (open + 1)..(k - 1) : ~IsFence(ls[j + 1])
    ELSE IF Len(ls) - 1 > open THEN Len(ls) - 1 ELSE Len(ls)

\* the index the inner loop of the fence branch stops at: the first line after
\* the opening one that starts with three backticks, lines.length if there is none
FenceClose(ls, open) ==
    IF \E k \in (open + 1)..(Len(ls) - 1) : IsFence(ls[k + 1])
    THEN CHOOSE k \in (open + 1)..(Len(ls) - 1) :
            IsFence(ls[k + 1]) /\ \A j \in (open + 1)..(k - 1) : ~IsFence(ls[j + 1])
    ELSE Len(ls)

\* FenceBody that leaves blank lines out of the code
FenceBodyNoBlanks(ls, open) ==
    SelectSeq(SubSeq(ls, open + 2, FenceClose(ls, open)), LAMBDA line : ~IsBlank(line))

\* codeLines: the lines pushed by the inner loop, lines[open + 1 .. close - 1]
FenceBody(ls, open) == SubSeq(ls, open + 2, FenceClose(ls, open))

\* CodeFence that leaves the cursor on the closing fence line
CodeFenceReopens ==
    /\ AtLine
    /\ ~IsBlank(CurLine)
    /\ ~HeadingMatch(CurLine).matched
    /\ IsFence(CurLine)
    /\ content' = Append(content, CodeBlock(FenceLanguage(CurLine), FenceBody(lines, i)))
    /\ i' = FenceClose(lines, i)
    /\ origin' = Append(origin, <<i, i'>>)
    /\ UNCHANGED <<callVars, markdown, markdownArg, useMarkdown, pc, lines, runStart, listItems, level, result>>
    /\ UNCHANGED scanVars

\* if (line.startsWith(three backticks)): the whole branch
CodeFence ==
    /\ AtLine
    /\ ~IsBlank(CurLine)
    /\ ~HeadingMatch(CurLine).matched
    /\ IsFence(CurLine)
    /\ content' = Append(content, CodeBlock(FenceLanguage(CurLine), FenceBody(lines, i)))
    /\ i' = FenceClose(lines, i) + 1
    /\ origin' = Append(origin, <<i, i'>>)
    /\ UNCHANGED <<callVars, markdown, markdownArg, useMarkdown, pc, lines, runStart, listItems, level, result>>
    /\ UNCHANGED scanVars

\* if (line.match(bullet)) { const listItems = []; ...
BulletStart ==
    /\ AtLine
    /\ ~IsBlank(CurLine)
    /\ ~HeadingMatch(CurLine).matched
    /\ ~IsFence(CurLine)
    /\ BulletMatch(CurLine)
    /\ listItems' = << >>
    /\ runStart' = i
    /\ pc' = "bullet"
    /\ UNCHANGED <<callVars, markdown, markdownArg, useMarkdown, lines, i, content, origin, level, result>>
    /\ UNCHANGED scanVars

\* while (i < lines.length && lines[i].match(bullet))
InBulletRun == i < Len(lines) /\ BulletMatch(CurLine)

\* the loop body up to its call parseInlineMarkdown(itemText)
BulletItem ==
    /\ pc = "bullet"
    /\ InBulletRun
    /\ EnterScan(BulletText(CurLine), "bullet")
    /\ UNCHANGED <<callVars, markdown, markdownArg, useMarkdown, result>>
    /\ UNCHANGED segVars

\* BulletEnd that steps over the line that ended the run
BulletEndSwallows ==
    /\ pc = "bullet"
    /\ ~InBulletRun
    /\ content' = Append(content, BulletList(listItems))
    /\ i' = i + 1
    /\ origin' = Append(origin, <<runStart, i>>)
    /\ listItems' = << >>
    /\ runStart' = 0
    /\ pc' = "top"
    /\ UNCHANGED <<callVars, markdown, markdownArg, useMarkdown, lines, level, result>>
    /\ UNCHANGED scanVars

\* the loop's exit: content.push({ type: 'bulletList', content: listItems }); continue;
BulletEnd ==
    /\ pc = "bullet"
    /\ ~InBulletRun
    /\ content' = Append(content, BulletList(listItems))
    /\ origin' = Append(origin, <<runStart, i>>)
    /\ listItems' = << >>
    /\ runStart' = 0
    /\ pc' = "top"
    /\ UNCHANGED <<callVars, markdown, markdownArg, useMarkdown, lines, i, level, result>>
    /\ UNCHANGED scanVars

\* if (line.match(ordered)) { const listItems = []; ...
OrderedStart ==
    /\ AtLine
    /\ ~IsBlank(CurLine)
    /\ ~HeadingMatch(CurLine).matched
    /\ ~IsFence(CurLine)
    /\ ~BulletMatch(CurLine)
    /\ OrderedMatch(CurLine)
    /\ listItems' = << >>
    /\ runStart' = i
    /\ pc' = "ordered"
    /\ UNCHANGED <<callVars, markdown, markdownArg, useMarkdown, lines, i, content, origin, level, result>>
    /\ UNCHANGED scanVars

\* while (i < lines.length && lines[i].match(ordered))
InOrderedRun == i < Len(lines) /\ OrderedMatch(CurLine)

\* the loop body up to its call parseInlineMarkdown(itemText)
OrderedItem ==
    /\ pc = "ordered"
    /\ InOrderedRun
    /\ EnterScan(OrderedText(CurLine), "ordered")
    /\ UNCHANGED <<callVars, markdown, markdownArg, useMarkdown, result>>
    /\ UNCHANGED segVars

\* the loop's exit: content.push({ type: 'orderedList', content: listItems }); continue;
OrderedEnd ==
    /\ pc = "ordered"
    /\ ~InOrderedRun
    /\ content' = Append(content, OrderedList(listItems))
    /\ origin' = Append(origin, <<runStart, i>>)
    /\ listItems' = << >>
    /\ runStart' = 0
    /\ pc' = "top"
    /\ UNCHANGED <<callVars, markdown, markdownArg, useMarkdown, lines, i, level, result>>
    /\ UNCHANGED scanVars

\* the default branch: evaluates parseInlineMarkdown(line)
ParagraphLine ==
    /\ AtLine
    /\ ~IsBlank(CurLine)
    /\ ~HeadingMatch(CurLine).matched
    /\ ~IsFence(CurLine)
    /\ ~BulletMatch(CurLine)
    /\ ~OrderedMatch(CurLine)
    /\ EnterScan(CurLine, "paragraph")
    /\ UNCHANGED <<callVars, markdown, markdownArg, useMarkdown, result>>
    /\ UNCHANGED segVars

\* FinalContent that pushes the placeholder whatever content holds
FinalContentAlways(blocks) == Append(blocks, [type |-> "paragraph", content |-> << >>])

\* FinalContent without the placeholder of an empty document
FinalContentAsIs(blocks) == blocks

\* if (content.length === 0) content.push({ type: 'paragraph', content: [] })
FinalContent(blocks) == IF Len(blocks) = 0 THEN <<Paragraph(<< >>)>> ELSE blocks

\* the outer loop's exit and the return of the Document
Finish ==
    /\ pc = "top"
    /\ ~(i < Len(lines))
    /\ content' = FinalContent(content)
    /\ result' = Document(content')
    /\ pc' = "done"
    /\ UNCHANGED <<callVars, markdown, markdownArg, useMarkdown, lines, i, origin, runStart, listItems, level>>
    /\ UNCHANGED scanVars

\* ------------------------------------------- parseInlineMarkdown, the scanner

\* while (remaining.length > 0), with room on the heap for one more run
AtScan == pc = "scan" /\ remaining # << >> /\ Len(nodes) < MaxNodes

\* if (boldMatch) { push strong run; remaining = remaining.slice(boldMatch[0].length) }
ScanStrong ==
    /\ AtScan
    /\ BoldMatch(remaining).matched
    /\ nodes' = Append(nodes, MarkedNode(BoldMatch(remaining).text, StrongMark))
    /\ remaining' = Drop(remaining, BoldMatch(remaining).len)
    /\ UNCHANGED <<callVars, markdown, markdownArg, useMarkdown, pc, caller, text, result>>
    /\ UNCHANGED segVars

\* if (italicMatch) { push em run; remaining = remaining.slice(italicMatch[0].length) }
ScanEm ==
    /\ AtScan
    /\ ~BoldMatch(remaining).matched
    /\ ItalicMatch(remaining).matched
    /\ nodes' = Append(nodes, MarkedNode(ItalicMatch(remaining).text, EmMark))
    /\ remaining' = Drop(remaining, ItalicMatch(remaining).len)
    /\ UNCHANGED <<callVars, markdown, markdownArg, useMarkdown, pc, caller, text, result>>
    /\ UNCHANGED segVars

\* if (codeMatch) { push code run; remaining = remaining.slice(codeMatch[0].length) }
ScanCode ==
    /\ AtScan
    /\ ~BoldMatch(remaining).matched
    /\ ~ItalicMatch(remaining).matched
    /\ CodeMatch(remaining).matched
    /\ nodes' = Append(nodes, MarkedNode(CodeMatch(remaining).text, CodeMark))
    /\ remaining' = Drop(remaining, CodeMatch(remaining).len)
    /\ UNCHANGED <<callVars, markdown, markdownArg, useMarkdown, pc, caller, text, result>>
    /\ UNCHANGED segVars

\* if (linkMatch) { push link run; remaining = remaining.slice(linkMatch[0].length) }
ScanLink ==
    /\ AtScan
    /\ ~BoldMatch(remaining).matched
    /\ ~ItalicMatch(remaining).matched
    /\ ~CodeMatch(remaining).matched
    /\ LinkMatch(remaining).matched
    /\ nodes' = Append(nodes, MarkedNode(LinkMatch(remaining).text,
                                         LinkMark(LinkMatch(remaining).href)))
    /\ remaining' = Drop(remaining, LinkMatch(remaining).len)
    /\ UNCHANGED <<callVars, markdown, markdownArg, useMarkdown, pc, caller, text, result>>
    /\ UNCHANGED segVars

\* none of the four patterns matches at the start of r
NoPattern(r) ==
    /\ ~BoldMatch(r).matched
    /\ ~ItalicMatch(r).matched
    /\ ~CodeMatch(r).matched
    /\ ~LinkMatch(r).matched

\* LiteralText that trims the rest it pushes before break
LiteralTextTrimmed(r) == IF NextSpecial(r) = -1 THEN Trim(r) ELSE Take(r, NextSpecial(r))

\* the text of the run the fallback pushes: remaining, or remaining.slice(0, nextSpecial)
LiteralText(r) == IF NextSpecial(r) = -1 THEN r ELSE Take(r, NextSpecial(r))

\* LiteralRest that also steps over the special character it stopped at
LiteralRestSkipping(r) == IF NextSpecial(r) = -1 THEN r ELSE Drop(r, NextSpecial(r) + 1)

\* remaining after the fallback: untouched before break, else remaining.slice(nextSpecial)
LiteralRest(r) == IF NextSpecial(r) = -1 THEN r ELSE Drop(r, NextSpecial(r))

\* the fallback: nextSpecial === -1 ? { push rest; break } : { push up to it; slice }
ScanLiteral ==
    /\ AtScan
    /\ NoPattern(remaining)
    /\ nodes' = Append(nodes, TextNode(LiteralText(remaining)))
    /\ remaining' = LiteralRest(remaining)
    /\ pc' = IF NextSpecial(remaining) = -1 THEN "break" ELSE "scan"
    /\ UNCHANGED <<callVars, markdown, markdownArg, useMarkdown, caller, text, result>>
    /\ UNCHANGED segVars

\* nodes.push with the heap exhausted: the process dies, nothing is returned
ScanAbort ==
    /\ pc = "scan"
    /\ remaining # << >>
    /\ ~(Len(nodes) < MaxNodes)
    /\ pc' = "aborted"
    /\ UNCHANGED <<callVars, markdown, markdownArg, useMarkdown, result>>
    /\ UNCHANGED segVars
    /\ UNCHANGED scanVars

\* the loop of parseInlineMarkdown is left: remaining.length === 0, or break
ScanDone == (pc = "scan" /\ remaining = << >>) \/ pc = "break"

\* return nodes to the heading branch: content.push(heading); i++; continue;
ReturnToHeading ==
    /\ ScanDone
    /\ caller = "heading"
    /\ content' = Append(content, Heading(level, nodes))
    /\ origin' = Append(origin, <<i, i + 1>>)
    /\ i' = i + 1
    /\ level' = 0
    /\ pc' = "top"
    /\ LeaveScan
    /\ UNCHANGED <<callVars, markdown, markdownArg, useMarkdown, lines, runStart, listItems, result>>

\* return nodes to the bullet loop: listItems.push(listItem); i++;
ReturnToBullet ==
    /\ ScanDone
    /\ caller = "bullet"
    /\ listItems' = Append(listItems, ListItem(nodes))
    /\ i' = i + 1
    /\ pc' = "bullet"
    /\ LeaveScan
    /\ UNCHANGED <<callVars, markdown, markdownArg, useMarkdown, lines, content, origin, runStart, level, result>>

\* return nodes to the ordered loop: listItems.push(listItem); i++;
ReturnToOrdered ==
    /\ ScanDone
    /\ caller = "ordered"
    /\ listItems' = Append(listItems, ListItem(nodes))
    /\ i' = i + 1
    /\ pc' = "ordered"
    /\ LeaveScan
    /\ UNCHANGED <<callVars, markdown, markdownArg, useMarkdown, lines, content, origin, runStart, level, result>>

\* return nodes to the default branch: content.push(paragraph); i++;
ReturnToParagraph ==
    /\ ScanDone
    /\ caller = "paragraph"
    /\ content' = Append(content, Paragraph(nodes))
    /\ origin' = Append(origin, <<i, i + 1>>)
    /\ i' = i + 1
    /\ pc' = "top"
    /\ LeaveScan
    /\ UNCHANGED <<callVars, markdown, markdownArg, useMarkdown, lines, runStart, listItems, level, result>>

\* ---------------------------------------------------------- the specification

Next ==
    \/ CallTextToAdf
    \/ CallMarkdownToAdf
    \/ SkipBlank
    \/ HeadingLine
    \/ CodeFence
    \/ BulletStart
    \/ BulletItem
    \/ BulletEnd
    \/ OrderedStart
    \/ OrderedItem
    \/ OrderedEnd
    \/ ParagraphLine
    \/ Finish
    \/ ScanStrong
    \/ ScanEm
    \/ ScanCode
    \/ ScanLink
    \/ ScanLiteral
    \/ ScanAbort
    \/ ReturnToHeading
    \/ ReturnToBullet
    \/ ReturnToOrdered
    \/ ReturnToParagraph

Spec == Init /\ [][Next]_vars

\* ------------------------------------------------- two calls, steps interleaved

\* the bodies the calls of the two-call specification convert
CallInputs ==
    { <<"#", " ", "*", "b", "*", "\n", "\n">> \o Fence \o <<" ", "j", " ", "\n", "p">>,
      <<"-", " ", "a", "\n", "*", " ", "*", "b", "*", "\n", "1", "0", ".", " ", "f">>,
      <<"1", ".", " ", "*", "b", "*", "\n", "2", ".", " ", "g", "[">>,
      <<"#", "#", " ", "h", "*", "*", "s", "*", "*">>,
      <<"[", "a", "]", "(", "a", ")", BT, "a", BT>>,
      <<"[">> }

\* the variables a call owns: the parameters and locals of addComment,
\* markdownToAdf, parseInlineMarkdown and textToAdf for that call
Frame ==
    [markdown |-> markdown, markdownArg |-> markdownArg, useMarkdown |-> useMarkdown,
     pc |-> pc, lines |-> lines, i |-> i, content |-> content, origin |-> origin,
     runStart |-> runStart, listItems |-> listItems, caller |-> caller, level |-> level,
     text |-> text, remaining |-> remaining, nodes |-> nodes, result |-> result,
     clean |-> clean]

\* the frame of a call on entry
FreshFrame(body, arg) ==
    [markdown |-> body, markdownArg |-> arg, useMarkdown |-> MarkdownParam(arg),
     pc |-> "start", lines |-> << >>, i |-> 0, content |-> << >>, origin |-> << >>,
     runStart |-> 0, listItems |-> << >>, caller |-> "none", level |-> 0,
     text |-> << >>, remaining |-> << >>, nodes |-> << >>, result |-> NoResult,
     clean |-> TRUE]

\* the current call has begun and has not ended
Running == pc \notin {"start", "done", "aborted"}

\* the variables of the current call become those of frame f
Resume(f) ==
    /\ markdown' = f.markdown
    /\ markdownArg' = f.markdownArg
    /\ useMarkdown' = f.useMarkdown
    /\ pc' = f.pc
    /\ lines' = f.lines
    /\ i' = f.i
    /\ content' = f.content
    /\ origin' = f.origin
    /\ runStart' = f.runStart
    /\ listItems' = f.listItems
    /\ caller' = f.caller
    /\ level' = f.level
    /\ text' = f.text
    /\ remaining' = f.remaining
    /\ result' = f.result
    /\ clean' = f.clean

\* Switch for a scanner whose nodes array is declared outside the function
SwitchSharingNodes ==
    /\ parked # NoCall
    /\ parked' = [Frame EXCEPT !.clean = clean /\ ~Running]
    /\ Resume(parked)
    /\ UNCHANGED <<nodes, alone, calls>>

\* the other call takes the next step: every parameter and local (const lines,
\* const content, let i, const nodes, let remaining, ...) belongs to one call,
\* so the two calls' values change places whole
Switch ==
    /\ parked # NoCall
    /\ parked' = [Frame EXCEPT !.clean = clean /\ ~Running]
    /\ Resume(parked)
    /\ nodes' = parked.nodes
    /\ UNCHANGED <<alone, calls>>

\* the call that has ended is followed by a new call, whose parameters are
\* bound and whose locals are declared anew
NewCall ==
    /\ pc \in {"done", "aborted"}
    /\ calls < MaxCalls
    /\ calls' = calls + 1
    /\ alone' = IF clean THEN alone \cup {<<markdown, markdownArg, pc, result>>} ELSE alone
    /\ \E body \in CallInputs, arg \in MarkdownArgs :
          /\ Resume(FreshFrame(body, arg))
          /\ nodes' = FreshFrame(body, arg).nodes
    /\ UNCHANGED parked

InitCalls ==
    /\ \E body \in CallInputs, arg \in MarkdownArgs :
          /\ markdown = body
          /\ markdownArg = arg
          /\ useMarkdown = MarkdownParam(arg)
    /\ pc = "start"
    /\ lines = << >>
    /\ i = 0
    /\ content = << >>
    /\ origin = << >>
    /\ runStart = 0
    /\ listItems = << >>
    /\ caller = "none"
    /\ level = 0
    /\ text = << >>
    /\ remaining = << >>
    /\ nodes = << >>
    /\ result = NoResult
    /\ parked \in {FreshFrame(body, arg) : body \in CallInputs, arg \in MarkdownArgs}
    /\ clean = TRUE
    /\ alone = {}
    /\ calls = 2

NextCalls ==
    \/ Next
    \/ Switch
    \/ NewCall

SpecCalls == InitCalls /\ [][NextCalls]_vars

\* ------------------------------------------------ vocabulary of the properties

\* a run with no marks key
Unmarked(run) == "marks" \notin DOMAIN run

\* the number of marks a run carries
MarkCount(run) == IF Unmarked(run) THEN 0 ELSE Len(run.marks)

\* the source text a run stands for: its text inside the delimiters of its mark
RunSource(run) ==
    IF Unmarked(run) THEN run.text
    ELSE CASE run.marks[1].type = "strong" -> <<"*", "*">> \o run.text \o <<"*", "*">>
           [] run.marks[1].type = "em"     -> <<"*">> \o run.text \o <<"*">>
           [] run.marks[1].type = "code"   -> <<BT>> \o run.text \o <<BT>>
           [] run.marks[1].type = "link"   ->
                <<"[">> \o run.text \o <<"]", "(">> \o run.marks[1].attrs.href \o <<")">>

\* the runs' sources, concatenated in order
RunsSource(runs) == Flatten([k \in 1..Len(runs) |-> RunSource(runs[k])])

\* no character of s at positions from..to is c
Free(s, from, to, c) == \A k \in from..to : s[k] # c

\* r starts with **t** for a t of n >= 1 characters, none of them *
WfStrong(r, n) ==
    /\ n >= 1 /\ Len(r) >= n + 4
    /\ r[1] = "*" /\ r[2] = "*"
    /\ Free(r, 3, n + 2, "*")
    /\ r[n + 3] = "*" /\ r[n + 4] = "*"

\* r starts with *t* for a t of n >= 1 characters, none of them *
WfEm(r, n) ==
    /\ n >= 1 /\ Len(r) >= n + 2
    /\ r[1] = "*"
    /\ Free(r, 2, n + 1, "*")
    /\ r[n + 2] = "*"

\* r starts with a backtick, a t of n >= 1 characters, none of them a backtick, and a backtick
WfCode(r, n) ==
    /\ n >= 1 /\ Len(r) >= n + 2
    /\ r[1] = BT
    /\ Free(r, 2, n + 1, BT)
    /\ r[n + 2] = BT

\* r starts with [t](h) for a t of n >= 1 characters without ] and an h of m >= 1 without )
WfLink(r, n, m) ==
    /\ n >= 1 /\ m >= 1 /\ Len(r) >= n + m + 4
    /\ r[1] = "["
    /\ Free(r, 2, n + 1, "]")
    /\ r[n + 2] = "]" /\ r[n + 3] = "("
    /\ Free(r, n + 4, n + m + 3, ")")
    /\ r[n + m + 4] = ")"

\* r starts with one of the four complete inline patterns
StartsPattern(r) ==
    \E n \in 1..Len(r) :
        \/ WfStrong(r, n)
        \/ WfEm(r, n)
        \/ WfCode(r, n)
        \/ \E m \in 1..Len(r) : WfLink(r, n, m)

\* r starts with *, a backtick or [ that begins no complete pattern
Malformed(r) == r # << >> /\ r[1] \in SpecialChars /\ ~StartsPattern(r)

\* the conversion has stopped: no step of it is possible
Halted == ~ENABLED Next

\* ------------------------------------------------------------------------ C1

\* C1: for every input string markdownToAdf terminates and returns a Document:
\* whenever the markdown conversion can take no further step, it is because it
\* has returned, and what it returned is a Document.
C1_TerminatesWithDocument ==
    (useMarkdown /\ Halted) => (pc = "done" /\ result.type = "doc")

\* ------------------------------------------------------------------------ C2

\* C2: malformed inline markup degrades to literal text: when the text left to
\* scan starts with *, a backtick or [ that completes none of the four patterns,
\* the scanner's step does not fail and puts that character, literally, into an
\* unmarked run; and no run carries more than one mark.
C2_MalformedIsLiteral ==
    [][(pc = "scan" /\ Malformed(remaining))
         => /\ pc' \in {"scan", "break"}
            /\ Len(nodes') = Len(nodes) + 1
            /\ Unmarked(nodes'[Len(nodes')])
            /\ nodes'[Len(nodes')].text # << >>
            /\ nodes'[Len(nodes')].text[1] = remaining[1]
            /\ \A k \in 1..Len(nodes') : MarkCount(nodes'[k]) <= 1]_vars

\* ------------------------------------------------------------------------ C3

\* the pass over the lines produced no block
NoBlockProduced ==
    IF useMarkdown THEN origin = << >>
    ELSE \A k \in 1..Len(Split(markdown)) : IsBlank(Split(markdown)[k])

\* C3: every Document returned by markdownToAdf or textToAdf has type doc,
\* version 1 and a non-empty content; when the pass over the lines produced no
\* block, content is exactly one Paragraph with empty content.
C3_DocumentShape ==
    pc = "done" =>
        /\ result.type = "doc"
        /\ result.version = 1
        /\ Len(result.content) >= 1
        /\ NoBlockProduced =>
              result.content = <<[type |-> "paragraph", content |-> << >>]>>

\* a markdown conversion of several lines, all blank, has returned the placeholder
C3_Witness ==
    /\ pc = "done"
    /\ useMarkdown
    /\ Len(lines) >= 2
    /\ NoBlockProduced
    /\ Len(result.content) = 1

\* ------------------------------------------------------------------------ C4

\* C4: the runs of the scanner are in source order and cover the span exactly:
\* at every point of the scan the runs collected so far, each re-wrapped in the
\* delimiters of its mark, followed by the text left, spell the span; when the
\* scanner returns the runs alone spell it; and a non-empty span with none of
\* *, backtick, [ gives exactly one unmarked run equal to the span.
C4_RunsCoverSpan ==
    /\ pc = "scan" => RunsSource(nodes) \o remaining = text
    /\ ScanDone =>
          /\ RunsSource(nodes) = text
          /\ (text # << >> /\ NextSpecial(text) = -1) => nodes = <<[type |-> "text", text |-> text]>>

\* the scanner returns three runs or more, marked and unmarked ones among them
C4_Witness ==
    /\ ScanDone
    /\ Len(nodes) >= 3
    /\ \E k \in 1..Len(nodes) : Unmarked(nodes[k])
    /\ \E k \in 1..Len(nodes) : ~Unmarked(nodes[k])

\* ------------------------------------------------------------------------ C5

\* the step appends exactly the run t with the one mark, and drops len characters
EmitsRun(t, mark, len) ==
    /\ nodes' = Append(nodes, [type |-> "text", text |-> t, marks |-> <<mark>>])
    /\ remaining' = Drop(remaining, len)

\* C5: when the text left starts with a well-formed **t**, *t*, backtick-t-backtick
\* or [t](h), the scanner's step emits exactly one run whose text is t verbatim,
\* with the single mark strong / em / code / link{href = h}, and removes the whole
\* matched span, delimiters included, from the text left.
C5_PatternStep ==
    [][(pc = "scan") =>
         \A n \in 1..Len(remaining) :
            /\ WfStrong(remaining, n) =>
                  EmitsRun(SubSeq(remaining, 3, n + 2), [type |-> "strong"], n + 4)
            /\ WfEm(remaining, n) =>
                  EmitsRun(SubSeq(remaining, 2, n + 1), [type |-> "em"], n + 2)
            /\ WfCode(remaining, n) =>
                  EmitsRun(SubSeq(remaining, 2, n + 1), [type |-> "code"], n + 2)
            /\ \A m \in 1..Len(remaining) :
                  WfLink(remaining, n, m) =>
                     EmitsRun(SubSeq(remaining, 2, n + 1),
                              [type |-> "link",
                               attrs |-> [href |-> SubSeq(remaining, n + 4, n + m + 3)]],
                              n + m + 4)]_vars

\* the scanner has emitted a link run
C5_Witness ==
    /\ pc = "scan"
    /\ \E k \in 1..Len(nodes) : ~Unmarked(nodes[k]) /\ nodes[k].marks[1].type = "link"

\* ------------------------------------------------------------------------ C6

\* lines[k], k counted from 0 as the cursor is
Line(k) == lines[k + 1]

\* the lines strictly between the line s and the next line after it that starts
\* with three backticks (the end of the input if there is none)
BodyIndices(s) ==
    {k \in (s + 1)..(Len(lines) - 1) : \A j \in (s + 1)..k : ~IsFence(Line(j))}

\* those lines, in order
BodyLines(s) == [n \in 1..Cardinality(BodyIndices(s)) |-> Line(s + n)]

\* block j of content was produced from the lines origin[j][1] .. origin[j][2] - 1
Covers(j, k) == origin[j][1] <= k /\ k < origin[j][2]

\* C6: the body of a code fence is taken verbatim: every line strictly between
\* the opening fence line and the next line starting with three backticks is
\* part of the CodeBlock and of no other block, whatever it looks like, and the
\* CodeBlock's single text child is those lines, unchanged, joined by newlines.
C6_FenceBodyVerbatim ==
    \A j \in 1..Len(origin) :
        content[j].type = "codeBlock" =>
            /\ content[j].content =
                  <<[type |-> "text", text |-> JoinNL(BodyLines(origin[j][1]))]>>
            /\ \A k \in BodyIndices(origin[j][1]) :
                  \A j2 \in 1..Len(origin) : Covers(j2, k) <=> j2 = j

\* a closed fence whose body is a line that looks like a bullet item
C6_Witness ==
    \E j \in 1..Len(origin) :
        /\ content[j].type = "codeBlock"
        /\ \E k \in BodyIndices(origin[j][1]) : BulletMatch(Line(k))
        /\ origin[j][2] <= Len(lines)
        /\ IsFence(Line(origin[j][2] - 1))

\* ------------------------------------------------------------------------ C7

\* no line after the line s starts with three backticks
Unterminated(s) == \A k \in (s + 1)..(Len(lines) - 1) : ~IsFence(Line(k))

\* C7: an unterminated fence takes every line after its opening line, up to the
\* end of the input, as the text of one CodeBlock; the segmenter then stops (the
\* cursor is past the last line) and no block follows that CodeBlock.
C7_UnterminatedFence ==
    \A j \in 1..Len(origin) :
        (content[j].type = "codeBlock" /\ Unterminated(origin[j][1])) =>
            /\ content[j].content =
                  <<[type |-> "text",
                     text |-> JoinNL(SubSeq(lines, origin[j][1] + 2, Len(lines)))]>>
            /\ j = Len(content)
            /\ ~(i < Len(lines))
            /\ pc \in {"top", "done"}

\* a conversion has returned whose last block is an unterminated fence of two lines of code
C7_Witness ==
    /\ pc = "done"
    /\ \E j \in 1..Len(origin) :
          /\ content[j].type = "codeBlock"
          /\ Unterminated(origin[j][1])
          /\ origin[j][1] + 2 < Len(lines)

\* ------------------------------------------------------------------------ C8

\* line k lies inside a CodeBlock
InCode(k) == \E j \in 1..Len(origin) : content[j].type = "codeBlock" /\ Covers(j, k)

\* s without its leading white space
LStrip(s) == Drop(s, LeadingCount(s, WhiteSpace))

\* the lines already consumed by the outer loop
Consumed == 0..((IF i < Len(lines) THEN i ELSE Len(lines)) - 1)

\* every BulletList of content is one maximal run of bullet lines, item for line,
\* and every bullet line consumed outside a fence is in exactly one BulletList
C8_Structure ==
    /\ \A j \in 1..Len(origin) :
          content[j].type = "bulletList" =>
             LET s == origin[j][1]
                 e == origin[j][2]
             IN  /\ s < e
                 /\ \A k \in s..(e - 1) : BulletMatch(Line(k))
                 /\ s = 0 \/ ~BulletMatch(Line(s - 1))
                 /\ e >= Len(lines) \/ ~BulletMatch(Line(e))
                 /\ Len(content[j].content) = e - s
                 /\ \A n \in 1..(e - s) :
                       /\ content[j].content[n].type = "listItem"
                       /\ RunsSource(content[j].content[n].content[1].content)
                             = LStrip(Drop(Line(s + n - 1), 1))
    /\ pc \in {"top", "done"} =>
          \A k \in Consumed :
             (BulletMatch(Line(k)) /\ ~InCode(k)) =>
                Cardinality({j \in 1..Len(origin) :
                                content[j].type = "bulletList" /\ Covers(j, k)}) = 1

\* a bullet run the segmenter has entered is not left without its BulletList
C8_RunCompletes == ~(pc = "aborted" /\ caller = "bullet")

\* C8: every maximal run of consecutive bullet lines (markers *, -, + mixed)
\* yields exactly one BulletList whose ListItems are, in source order, the lines
\* of the run with marker and following spaces stripped.
C8_BulletGrouping == C8_Structure /\ C8_RunCompletes

\* ------------------------------------------------------------------------ C9

\* the first non-space character of the line is *, - or +, then white space, then text
BulletAfterIndent(line) ==
    LET t == LStrip(line)
    IN  Len(t) >= 3 /\ t[1] \in {"*", "-", "+"} /\ t[2] \in WhiteSpace
        /\ LStrip(Drop(t, 1)) # << >>

\* C9 as stated: a line is a bullet item whenever its first non-space character
\* is *, - or + followed by spaces and text, indented or not: the segmenter,
\* at such a line, enters the bullet run.
C9_IndentedBulletGrouped ==
    [][(AtLine /\ BulletAfterIndent(CurLine)) => pc' = "bullet"]_vars

\* C9 as amended: a line is a bullet item whenever its very first character is
\* *, - or + followed by spaces and text; a line whose marker comes after leading
\* white space is not grouped into a BulletList: it is taken as a paragraph line.
C9_BulletNeedsFirstColumn ==
    [][(AtLine /\ BulletAfterIndent(CurLine)) =>
          IF CurLine[1] \notin WhiteSpace
          THEN pc' = "bullet"
          ELSE pc' = "scan" /\ caller' = "paragraph" /\ text' = CurLine]_vars

\* an indented bullet line has become a Paragraph, next to a BulletList
C9_Witness ==
    /\ \E j \in 1..Len(origin) :
          /\ content[j].type = "paragraph"
          /\ BulletAfterIndent(Line(origin[j][1]))
    /\ \E j \in 1..Len(origin) : content[j].type = "bulletList"

\* ----------------------------------------------------------------------- C10

\* every OrderedList of content is one maximal run of ordered lines, item for
\* line, numbers stripped, and every ordered line consumed outside a fence is in
\* exactly one OrderedList
C10_Structure ==
    /\ \A j \in 1..Len(origin) :
          content[j].type = "orderedList" =>
             LET s == origin[j][1]
                 e == origin[j][2]
             IN  /\ s < e
                 /\ \A k \in s..(e - 1) : OrderedMatch(Line(k))
                 /\ s = 0 \/ ~OrderedMatch(Line(s - 1))
                 /\ e >= Len(lines) \/ ~OrderedMatch(Line(e))
                 /\ Len(content[j].content) = e - s
                 /\ \A n \in 1..(e - s) :
                       /\ content[j].content[n].type = "listItem"
                       /\ RunsSource(content[j].content[n].content[1].content)
                             = LStrip(Drop(Line(s + n - 1),
                                           LeadingCount(Line(s + n - 1), Digits) + 1))
    /\ pc \in {"top", "done"} =>
          \A k \in Consumed :
             (OrderedMatch(Line(k)) /\ ~InCode(k)) =>
                Cardinality({j \in 1..Len(origin) :
                                content[j].type = "orderedList" /\ Covers(j, k)}) = 1

\* an ordered run the segmenter has entered is not left without its OrderedList
C10_RunCompletes == ~(pc = "aborted" /\ caller = "ordered")

\* C10: every maximal run of consecutive lines of the form digits, ., spaces,
\* text yields exactly one OrderedList with one ListItem per line in source
\* order, whatever the numbers are.
C10_OrderedGrouping == C10_Structure /\ C10_RunCompletes

\* ---------------------------------------------------------------------------
\* Paragraphs
\* ---------------------------------------------------------------------------

\* line k is none of blank, heading, fence, bullet item or ordered item
PlainLine(k) ==
    /\ ~IsBlank(Line(k))
    /\ ~HeadingMatch(Line(k)).matched
    /\ ~IsFence(Line(k))
    /\ ~BulletMatch(Line(k))
    /\ ~OrderedMatch(Line(k))

\* the blocks of content that were produced from line k
BlocksOf(k) == {j \in 1..Len(origin) : Covers(j, k)}

\* every Paragraph of content comes from exactly one plain line and holds that
\* line; blocks are in source order; every plain line consumed outside a fence
\* has exactly one block, a Paragraph; a blank line outside a fence has none
C11_Structure ==
    /\ \A j \in 1..Len(origin) :
          content[j].type = "paragraph" =>
             /\ origin[j][2] = origin[j][1] + 1
             /\ PlainLine(origin[j][1])
             /\ RunsSource(content[j].content) = Line(origin[j][1])
    /\ \A j \in 1..(Len(origin) - 1) : origin[j][2] <= origin[j + 1][1]
    /\ pc \in {"top", "done"} =>
          \A k \in Consumed :
             /\ (PlainLine(k) /\ ~InCode(k)) =>
                   /\ Cardinality(BlocksOf(k)) = 1
                   /\ \A j \in BlocksOf(k) : content[j].type = "paragraph"
             /\ (IsBlank(Line(k)) /\ ~InCode(k)) => BlocksOf(k) = {}

\* a plain line the segmenter has entered is not left without its Paragraph
C11_RunCompletes == ~(pc = "aborted" /\ caller = "paragraph")

\* C11: paragraphs are never merged: each non-blank line outside a fence that is
\* not a heading, fence or list item becomes its own Paragraph block, so k
\* consecutive such lines yield k Paragraph blocks in source order, and blank
\* lines between them emit nothing.
C11_ParagraphPerLine == C11_Structure /\ C11_RunCompletes

\* ---------------------------------------------------------------------------
\* Headings
\* ---------------------------------------------------------------------------

\* the number of # characters line k starts with
Hashes(k) == LeadingCount(Line(k), {"#"})

\* C12: every Heading block has a level in 1..6 equal to the number of leading #
\* characters of its source line; a line with seven or more leading # characters
\* never produces a Heading: the block it gets is a Paragraph.
C12_HeadingLevel ==
    /\ \A j \in 1..Len(origin) :
          content[j].type = "heading" =>
             /\ origin[j][2] = origin[j][1] + 1
             /\ content[j].attrs.level \in 1..6
             /\ content[j].attrs.level = Hashes(origin[j][1])
    /\ pc = "done" /\ useMarkdown =>
          \A j \in 1..Len(origin) :
             content[j].type = "heading" => result.content[j] = content[j]
    /\ \A k \in 0..(Len(lines) - 1) :
          Hashes(k) >= 7 =>
             /\ \A j \in BlocksOf(k) : content[j].type # "heading"
             /\ (pc \in {"top", "done"} /\ k \in Consumed /\ ~InCode(k)) =>
                   \E j \in BlocksOf(k) : content[j].type = "paragraph"

\* a returned document with a level-2 Heading and the Paragraph of a line of
\* seven # characters
C12_Witness ==
    /\ pc = "done"
    /\ \E j \in 1..Len(origin) :
          /\ result.content[j].type = "heading"
          /\ result.content[j].attrs.level = 2
    /\ \E k \in 0..(Len(lines) - 1) :
          /\ Hashes(k) = 7
          /\ \E j \in BlocksOf(k) : result.content[j].type = "paragraph"

\* ---------------------------------------------------------------------------
\* Blank input
\* ---------------------------------------------------------------------------

\* every line of s is blank: s holds nothing but white space and newlines
AllBlank(s) == \A k \in 1..Len(s) : s[k] \in WhiteSpace \cup {"\n"}

\* the document of one Paragraph with empty content
EmptyDocument ==
    [type |-> "doc", version |-> 1,
     content |-> <<[type |-> "paragraph", content |-> << >>]>>]

\* C13: for every input in which all lines are blank (the empty string, or only
\* white space and newlines), markdownToAdf and textToAdf both return, and what
\* they return is exactly the document of one Paragraph with empty content.
C13_BlankInput ==
    AllBlank(markdown) =>
       /\ pc \in {"start", "top", "done"}
       /\ Halted => pc = "done"
       /\ pc = "done" => result = EmptyDocument

\* markdownToAdf has returned for an input of a white-space line and an empty line
C13_Witness ==
    /\ pc = "done"
    /\ useMarkdown
    /\ markdown = <<" ", "\n">>
    /\ result = EmptyDocument

\* ---------------------------------------------------------------------------
\* Marks
\* ---------------------------------------------------------------------------

\* the inline nodes of a block, in document order
BlockRuns(b) ==
    IF b.type \in {"bulletList", "orderedList"}
    THEN Flatten([n \in 1..Len(b.content) |->
                     Flatten([m \in 1..Len(b.content[n].content) |->
                                 b.content[n].content[m].content])])
    ELSE b.content

\* the inline nodes of a sequence of blocks
BlocksRuns(blocks) == Flatten([j \in 1..Len(blocks) |-> BlockRuns(blocks[j])])

MarkTypes == {"strong", "em", "code", "link"}

\* run is a Text run with no mark, or with one mark of the four kinds
AtMostOneMark(run) ==
    /\ run.type = "text"
    /\ MarkCount(run) <= 1
    /\ MarkCount(run) = 1 => run.marks[1].type \in MarkTypes

\* C14: in every document produced by either path, each Text run carries at
\* most one mark (none, or exactly one of strong, em, code, link): marks are
\* never composed or nested on a run.
C14_OneMarkPerRun ==
    /\ \A k \in 1..Len(nodes) : AtMostOneMark(nodes[k])
    /\ \A k \in 1..Len(BlocksRuns(content)) : AtMostOneMark(BlocksRuns(content)[k])
    /\ result.type = "doc" =>
          \A k \in 1..Len(BlocksRuns(result.content)) :
             AtMostOneMark(BlocksRuns(result.content)[k])

\* a returned document with a marked run next to an unmarked one
C14_Witness ==
    /\ pc = "done"
    /\ \E k \in 1..(Len(BlocksRuns(result.content)) - 1) :
          /\ MarkCount(BlocksRuns(result.content)[k]) = 0
          /\ MarkCount(BlocksRuns(result.content)[k + 1]) = 1

\* ---------------------------------------------------------------------------
\* Strong before em
\* ---------------------------------------------------------------------------

\* the run the scanner's step has just appended
NewRun == nodes'[Len(nodes')]

\* C15: strong takes priority over em: wherever in a span the text left begins
\* with **t** (t non-empty, without *), the step emits one run, which is t with
\* the strong mark, and consumes both delimiter pairs with it, so that no em run
\* is produced from those asterisks.
C15_StrongBeforeEm ==
    [][(pc = "scan") =>
         \A n \in 1..Len(remaining) :
            WfStrong(remaining, n) =>
               /\ Len(nodes') = Len(nodes) + 1
               /\ SubSeq(nodes', 1, Len(nodes)) = nodes
               /\ NewRun.text = SubSeq(remaining, 3, n + 2)
               /\ MarkCount(NewRun) = 1
               /\ NewRun.marks[1].type = "strong"
               /\ Len(remaining') = Len(remaining) - (n + 4)
               /\ \A k \in 1..Len(remaining') : remaining'[k] = remaining[n + 4 + k]]_vars

\* the scanner has emitted a strong run that is not at the start of its span
C15_Witness ==
    /\ pc = "scan"
    /\ \E k \in 2..Len(nodes) :
          /\ MarkCount(nodes[k]) = 1
          /\ nodes[k].marks[1].type = "strong"
          /\ MarkCount(nodes[k - 1]) = 0
          /\ nodes[k - 1].text # << >>

\* ---------------------------------------------------------------------------
\* The plain-text path
\* ---------------------------------------------------------------------------

\* the input's lines
InputLines == Split(markdown)

\* the positions of the input's lines that hold a character other than white space
Kept == {k \in 1..Len(InputLines) :
            \E c \in 1..Len(InputLines[k]) : InputLines[k][c] \notin WhiteSpace}

\* the position of the j-th such line
KeptAt(j) == CHOOSE k \in Kept : Cardinality({m \in Kept : m <= k}) = j

\* C16: textToAdf returns one Paragraph per non-blank input line, in source
\* order, each containing exactly one unmarked Text run whose text is the whole
\* line unchanged (no trimming, no inline scanning); blank lines contribute
\* nothing.
C16_PlainTextLines ==
    (pc = "done" /\ ~useMarkdown) =>
       /\ result.type = "doc"
       /\ Kept # {} =>
             /\ Len(result.content) = Cardinality(Kept)
             /\ \A j \in 1..Cardinality(Kept) :
                   result.content[j] =
                      [type |-> "paragraph",
                       content |-> <<[type |-> "text", text |-> InputLines[KeptAt(j)]]>>]
       /\ Kept = {} => BlocksRuns(result.content) = << >>

\* textToAdf has returned two Paragraphs for three lines, the middle one blank,
\* keeping the leading spaces of one line and the asterisks of the other
C16_Witness ==
    /\ pc = "done"
    /\ ~useMarkdown
    /\ Len(InputLines) = 3
    /\ Kept = {1, 3}
    /\ Len(result.content) = 2
    /\ \E j \in 1..2 : result.content[j].content[1].text[1] = " "
    /\ \E j \in 1..2 : \E c \in 1..Len(result.content[j].content[1].text) :
          result.content[j].content[1].text[c] = "*"

\* ---------------------------------------------------------------------------
\* One scanner for every span
\* ---------------------------------------------------------------------------

\* the prefixes of the lines # t, - t (or * t, + t) and 1. t
SpanPrefixes ==
    {<<"#", " ">>, <<"-", " ">>, <<"*", " ">>, <<"+", " ">>, <<"1", ".", " ">>}

\* line is a prefix of SpanPrefixes followed by a non-empty t that does not
\* start with white space
HasSpan(line) ==
    \E p \in SpanPrefixes :
        /\ StartsWith(line, p)
        /\ Len(line) > Len(p)
        /\ line[Len(p) + 1] \notin WhiteSpace

\* that t
SpanOf(line) == Drop(line, Len(CHOOSE p \in SpanPrefixes : StartsWith(line, p)))

\* the kind of block a line with such a prefix belongs to
SpanBlock(line) ==
    CASE line[1] = "#" -> "heading"
      [] line[1] = "1" -> "orderedList"
      [] OTHER         -> "bulletList"

\* the run sequence that block j of content holds for its line k
ContentFor(j, k) ==
    IF content[j].type = "heading"
    THEN content[j].content
    ELSE content[j].content[k - origin[j][1] + 1].content[1].content

\* the lines of the form # t, - t, 1. t that the segmenter has turned into blocks
Spanned == {k \in Consumed : HasSpan(Line(k)) /\ ~InCode(k) /\ BlocksOf(k) # {}}

\* C17: the same inline scanner is applied to every text span: for a text t
\* that does not start with white space, the Heading content from the line # t
\* and the ListItem paragraph content from - t and from 1. t are the identical
\* run sequence, the one that stands for t.
C17_SameScanner ==
    /\ \A k \in Spanned : \A j \in BlocksOf(k) :
          /\ content[j].type = SpanBlock(Line(k))
          /\ RunsSource(ContentFor(j, k)) = SpanOf(Line(k))
    /\ \A k1, k2 \in Spanned : \A j1 \in BlocksOf(k1) : \A j2 \in BlocksOf(k2) :
          SpanOf(Line(k1)) = SpanOf(Line(k2)) => ContentFor(j1, k1) = ContentFor(j2, k2)

\* a returned document whose Heading, bullet item and ordered item come from the
\* same t and hold the same single em run
C17_Witness ==
    /\ pc = "done"
    /\ Len(result.content) = 3
    /\ result.content[1].type = "heading"
    /\ result.content[2].type = "bulletList"
    /\ result.content[3].type = "orderedList"
    /\ Spanned = {0, 1, 2}
    /\ SpanOf(Line(0)) = SpanOf(Line(1)) /\ SpanOf(Line(1)) = SpanOf(Line(2))
    /\ result.content[1].content = result.content[2].content[1].content[1].content
    /\ result.content[1].content = result.content[3].content[1].content[1].content
    /\ MarkCount(result.content[1].content[1]) = 1

\* ---------------------------------------------------------------------------
\* Fence language
\* ---------------------------------------------------------------------------

\* the opening fence line of block j
OpeningLine(j) == Line(origin[j][1])

\* what follows the three backticks of the opening line, white space stripped
\* at both ends
Tag(j) == Trim(Drop(OpeningLine(j), Len(Fence)))

\* b is a CodeBlock with the language tag, or with no attribute when tag is empty,
\* and with exactly one unmarked text child
CodeBlockShape(b, tag) ==
    /\ tag # << >> => (DOMAIN b.attrs = {"language"} /\ b.attrs.language = tag)
    /\ tag = << >> => DOMAIN b.attrs = {}
    /\ Len(b.content) = 1
    /\ b.content[1].type = "text"
    /\ Unmarked(b.content[1])

\* C18: the CodeBlock language is the opening fence line's text after the three
\* backticks with surrounding white space trimmed; when that remainder is empty
\* the CodeBlock has no language attribute at all (attrs is empty), and in every
\* case the CodeBlock has exactly one unmarked text child.
C18_FenceLanguage ==
    \A j \in 1..Len(origin) :
       content[j].type = "codeBlock" =>
          /\ IsFence(OpeningLine(j))
          /\ CodeBlockShape(content[j], Tag(j))
          /\ (pc = "done" /\ useMarkdown) => CodeBlockShape(result.content[j], Tag(j))

\* a returned document with a CodeBlock whose language lost the spaces around
\* it and a CodeBlock without attributes
C18_Witness ==
    /\ pc = "done"
    /\ \E j \in 1..Len(origin) :
          /\ result.content[j].type = "codeBlock"
          /\ DOMAIN result.content[j].attrs = {"language"}
          /\ Len(result.content[j].attrs.language) + 2 = Len(OpeningLine(j)) - Len(Fence)
    /\ \E j \in 1..Len(origin) :
          /\ result.content[j].type = "codeBlock"
          /\ DOMAIN result.content[j].attrs = {}

\* ---------------------------------------------------------------------------
\* List items
\* ---------------------------------------------------------------------------

\* item is a ListItem with exactly one child, a Paragraph
OneParagraph(item) ==
    /\ item.type = "listItem"
    /\ Len(item.content) = 1
    /\ item.content[1].type = "paragraph"

\* every item of every BulletList and OrderedList of blocks is such a ListItem
ListsWellFormed(blocks) ==
    \A j \in 1..Len(blocks) :
       blocks[j].type \in {"bulletList", "orderedList"} =>
          /\ Len(blocks[j].content) >= 1
          /\ \A n \in 1..Len(blocks[j].content) : OneParagraph(blocks[j].content[n])

\* C19: in every produced document, each ListItem of a BulletList or
\* OrderedList contains exactly one child and that child is a Paragraph.
C19_ListItemShape ==
    /\ \A n \in 1..Len(listItems) : OneParagraph(listItems[n])
    /\ ListsWellFormed(content)
    /\ result.type = "doc" => ListsWellFormed(result.content)

\* a returned document with a BulletList of two items and an OrderedList
C19_Witness ==
    /\ pc = "done"
    /\ \E j \in 1..Len(result.content) :
          /\ result.content[j].type = "bulletList"
          /\ Len(result.content[j].content) = 2
    /\ \E j \in 1..Len(result.content) : result.content[j].type = "orderedList"

\* ---------------------------------------------------------------------------
\* Path selection
\* ---------------------------------------------------------------------------

\* neither the block segmenter nor the inline scanner has touched the body
ParsersIdle ==
    /\ pc \in {"start", "done"}
    /\ lines = << >> /\ i = 0 /\ content = << >> /\ listItems = << >>
    /\ caller = "none" /\ text = << >> /\ remaining = << >> /\ nodes = << >>

\* addComment's step out of its entry: markdownToAdf(body) is entered exactly
\* when the flag passed is true; otherwise, the flag being false or left out,
\* the body content is textToAdf(body)
SelectsPath ==
    pc = "start" =>
       IF markdownArg = "true"
       THEN pc' = "top" /\ lines' = Split(markdown) /\ result' = NoResult
       ELSE pc' = "done" /\ result' = TextToAdf(markdown)

\* C20: addComment builds the submitted body with markdownToAdf(body) exactly
\* when its markdown flag is true and with textToAdf(body) otherwise (the flag
\* defaults to false), so with the flag off the inline scanner and the block
\* segmenter are never run on the body.
C20_PathSelection ==
    /\ [](markdownArg # "true" => ParsersIdle)
    /\ [][SelectsPath]_vars

\* with the flag left out, a body that is a single [ has come back as one
\* literal Paragraph
C20_Witness ==
    /\ pc = "done"
    /\ markdownArg = "omitted"
    /\ markdown = <<"[">>
    /\ result = [type |-> "doc", version |-> 1,
                 content |-> <<[type |-> "paragraph",
                                content |-> <<[type |-> "text", text |-> <<"[">>]>>]>>]

\* ---------------------------------------------------------------------------
\* Independent calls
\* ---------------------------------------------------------------------------

\* frame f is of a call that has ended
Ended(f) == f.pc \in {"done", "aborted"}

\* the call of frame f ended as the clean call recorded in e did
SameOutcome(f, e) == f.pc = e[3] /\ f.result = e[4]

\* the call of frame f ended as every clean call alone recorded for the same
\* body and flag
AsAlone(f) ==
    Ended(f) =>
       \A e \in alone :
          (e[1] = f.markdown /\ e[2] = f.markdownArg) => SameOutcome(f, e)

\* C21: a conversion's result depends only on its own input string: converting
\* the same string twice, or running several conversions with their steps
\* interleaved in any order, gives each call the same Document it would produce
\* when run alone.
C21_CallsIndependent ==
    /\ AsAlone(Frame)
    /\ parked # NoCall => AsAlone(parked)
    /\ (parked # NoCall /\ Ended(Frame) /\ Ended(parked)
           /\ parked.markdown = markdown /\ parked.markdownArg = markdownArg) =>
          (parked.pc = pc /\ parked.result = result)

\* a markdown conversion has returned a Document with a marked run after its
\* steps were interleaved with those of a call on another body, itself cut into,
\* and a clean call on the same body is on record
C21_Witness ==
    /\ pc = "done" /\ useMarkdown /\ ~clean
    /\ \E k \in 1..Len(BlocksRuns(result.content)) :
          MarkCount(BlocksRuns(result.content)[k]) = 1
    /\ \E e \in alone : e[1] = markdown /\ e[2] = markdownArg
    /\ parked # NoCall /\ parked.markdown # markdown /\ parked.useMarkdown /\ ~parked.clean

\* ---------------------------------------------------------------------------
\* Scanner progress
\* ---------------------------------------------------------------------------

\* an iteration of the scanner's loop after which the loop goes on
Iteration == pc = "scan" /\ pc' = "scan" /\ nodes' # nodes

\* t is what is left of r after a non-empty prefix is removed
ProperSuffix(t, r) == Len(t) < Len(r) /\ t = Drop(r, Len(r) - Len(t))

\* C22: every iteration of the parseInlineMarkdown loop strictly shortens the
\* remaining text (already consumed text is never scanned again), for every
\* span, including when the remaining text starts with *, a backtick or [ that
\* begins no complete pattern.
C22_ScanProgress == [][Iteration => ProperSuffix(remaining', remaining)]_vars

\* the same for the iterations whose remaining text does not start with such a
\* character
C22_ProgressElsewhere ==
    [][(Iteration /\ ~Malformed(remaining)) => ProperSuffix(remaining', remaining)]_vars

\* ---------------------------------------------------------------------------
\* The line cursor
\* ---------------------------------------------------------------------------

\* the value the cursor had when the iteration in progress began
IterationStart == IF pc \in {"bullet", "ordered"} THEN runStart ELSE i

\* a step that ends an iteration of the outer loop
EndsIteration == pc \notin {"start", "done"} /\ pc' = "top"

\* the lines below the cursor are consumed, each by one branch: a blank line
\* outside a fence by the blank branch, which adds no block, and any other line
\* by the branch that produced the one block it belongs to
EachLineOnce ==
    pc \in {"top", "done"} =>
       /\ i >= 0
       /\ \A k \in Consumed :
             IF IsBlank(Line(k)) /\ ~InCode(k)
             THEN BlocksOf(k) = {}
             ELSE Cardinality(BlocksOf(k)) = 1
       /\ \A j \in 1..Len(origin) :
             /\ 0 <= origin[j][1] /\ origin[j][1] < origin[j][2] /\ origin[j][2] <= i
             /\ j < Len(origin) => origin[j][2] <= origin[j + 1][1]

\* C23: the line cursor i starts at 0, strictly increases on every iteration of
\* the outer loop, each line index below the line count is consumed by exactly
\* one classification branch (no line is skipped and none is processed twice),
\* and the loop is left once i reaches or exceeds the line count, each inline
\* scan it invokes having returned.
C23_Cursor ==
    /\ [](useMarkdown => EachLineOnce)
    /\ [](pc = "done" /\ useMarkdown => i >= Len(lines))
    /\ [][/\ (pc = "start" /\ pc' = "top") => i' = 0
          /\ EndsIteration => i' > IterationStart
          /\ useMarkdown => i' >= i
          /\ pc = "top" => ((pc' = "done") <=> (i >= Len(lines)))]_vars

\* markdownToAdf has returned after a pass over a heading line, a blank line
\* and a bullet line
C23_Witness ==
    /\ pc = "done"
    /\ Len(lines) = 3
    /\ i = 3
    /\ HeadingMatch(Line(0)).matched
    /\ IsBlank(Line(1))
    /\ BulletMatch(Line(2))
    /\ Len(origin) = 2

\* ---------------------------------------------------------------------------
\* Fence lines alternate
\* ---------------------------------------------------------------------------

\* the lines that start with three backticks
FenceLines == {k \in 0..(Len(lines) - 1) : IsFence(Line(k))}

\* the position of fence line k among the fence lines, counted from 1
FenceRank(k) == Cardinality({m \in FenceLines : m <= k})

\* the fence lines after line s
LaterFences(s) == {c \in FenceLines : c > s}

\* the first of them
NextFence(s) == CHOOSE c \in LaterFences(s) : \A d \in LaterFences(s) : c <= d

\* line k is the line a CodeBlock was opened at
Opens(k) == \E j \in 1..Len(origin) : content[j].type = "codeBlock" /\ origin[j][1] = k

\* the number of CodeBlocks among blocks
CodeBlocks(blocks) == Cardinality({j \in 1..Len(blocks) : blocks[j].type = "codeBlock"})

\* C24: fence lines alternate open/close: outside any fence, the first line
\* starting with three backticks opens a CodeBlock and the next line starting
\* with three backticks closes it, whatever follows the backticks on that
\* closing line (its text is discarded and sets no language); the closing line
\* is consumed and never opens a new CodeBlock, so 2k fence lines yield exactly
\* k CodeBlocks.
C24_FencesAlternate ==
    /\ \A j \in 1..Len(origin) :
          content[j].type = "codeBlock" =>
             LET s == origin[j][1]
             IN  /\ s \in FenceLines
                 /\ FenceRank(s) % 2 = 1
                 /\ CodeBlockShape(content[j], Tag(j))
                 /\ content[j].content[1].text = JoinNL(BodyLines(s))
                 /\ IF LaterFences(s) = {}
                    THEN origin[j][2] >= Len(lines)
                    ELSE /\ origin[j][2] = NextFence(s) + 1
                         /\ BlocksOf(NextFence(s)) = {j}
                         /\ ~Opens(NextFence(s))
    /\ pc \in {"top", "done"} =>
          \A k \in Consumed \cap FenceLines : Opens(k) <=> FenceRank(k) % 2 = 1
    /\ (pc = "done" /\ useMarkdown) =>
          CodeBlocks(result.content) = (Cardinality(FenceLines) + 1) \div 2

\* a returned document with two CodeBlocks from four fence lines, a Paragraph
\* between them, the first block closed by a fence line that carries text
C24_Witness ==
    /\ pc = "done"
    /\ Cardinality(FenceLines) = 4
    /\ CodeBlocks(result.content) = 2
    /\ Len(result.content) = 3
    /\ result.content[1].type = "codeBlock"
    /\ result.content[2].type = "paragraph"
    /\ Len(Line(origin[1][2] - 1)) > Len(Fence)
    /\ DOMAIN result.content[1].attrs = {}

\* ---------------------------------------------------------------------------
\* The line after a list run
\* ---------------------------------------------------------------------------

\* the kind of block a non-blank line starts when it is classified
BlockKind(line) ==
    CASE HeadingMatch(line).matched -> "heading"
      [] IsFence(line)              -> "codeBlock"
      [] BulletMatch(line)          -> "bulletList"
      [] OrderedMatch(line)         -> "orderedList"
      [] OTHER                      -> "paragraph"

\* line matches the item pattern of the list block b
MatchesRun(b, line) ==
    IF b.type = "bulletList" THEN BulletMatch(line) ELSE OrderedMatch(line)

\* C25: the line that ends a list run is not swallowed by the run: the first
\* line that does not match the run's own pattern is classified afresh on the
\* next iteration, so a bullet run immediately followed by an ordered item,
\* heading, fence or plain line yields the BulletList followed by that line's
\* own block, and a blank line between two bullet lines yields two separate
\* BulletList blocks.
C25_RunEndNotSwallowed ==
    /\ (pc = "top" /\ i < Len(lines)) => BlocksOf(i) = {}
    /\ \A j \in 1..Len(origin) :
          (content[j].type \in {"bulletList", "orderedList"} /\ origin[j][2] < Len(lines)) =>
             LET e == origin[j][2]
             IN  /\ ~MatchesRun(content[j], Line(e))
                 /\ (pc \in {"top", "done"} /\ e \in Consumed) =>
                       IF IsBlank(Line(e))
                       THEN BlocksOf(e) = {}
                       ELSE /\ j < Len(origin)
                            /\ origin[j + 1][1] = e
                            /\ content[j + 1].type = BlockKind(Line(e))
    /\ pc \in {"top", "done"} =>
          \A k \in Consumed :
             (/\ k >= 1 /\ k + 1 \in Consumed
              /\ BulletMatch(Line(k - 1)) /\ IsBlank(Line(k)) /\ BulletMatch(Line(k + 1))
              /\ ~InCode(k)) =>
                /\ BlocksOf(k - 1) \cap BlocksOf(k + 1) = {}
                /\ \A j \in BlocksOf(k - 1) \cup BlocksOf(k + 1) : content[j].type = "bulletList"

\* a returned document whose bullet runs were ended by a blank line, an ordered
\* item, a fence and a plain line, each of which got its own treatment
C25_Witness ==
    /\ pc = "done"
    /\ Len(result.content) = 8
    /\ result.content[1].type = "bulletList" /\ IsBlank(Line(origin[1][2]))
    /\ result.content[2].type = "bulletList" /\ result.content[3].type = "orderedList"
    /\ result.content[4].type = "heading"
    /\ result.content[5].type = "bulletList" /\ result.content[6].type = "codeBlock"
    /\ result.content[7].type = "bulletList" /\ result.content[8].type = "paragraph"

\* ---------------------------------------------------------------------------
\* List markers with nothing after them
\* ---------------------------------------------------------------------------

\* line is a bullet marker, or digits and a dot, followed by one or more
\* white-space characters and nothing else
MarkerOnly(line) ==
    LET d == LeadingCount(line, Digits)
        m == IF d >= 1 /\ Len(line) > d /\ line[d + 1] = "." THEN d + 1
             ELSE IF line # << >> /\ line[1] \in BulletMarkers THEN 1
             ELSE 0
    IN  /\ m >= 1
        /\ Len(line) > m
        /\ \A k \in (m + 1)..Len(line) : line[k] \in WhiteSpace

\* the list items of content, each with the line it came from
Items ==
    {<<j, n>> \in (1..Len(origin)) \X (1..Len(lines)) :
        /\ content[j].type \in {"bulletList", "orderedList"}
        /\ n <= Len(content[j].content)}

ItemLine(it) == Line(origin[it[1]][1] + it[2] - 1)

ItemRuns(it) == content[it[1]].content[it[2]].content[1].content

\* the statement as made: a line of a marker and spaces only is in no list, and
\* every ListItem's Paragraph has at least one Text run
C26_ItemNeedsText ==
    /\ \A it \in Items : ~MarkerOnly(ItemLine(it))
    /\ \A it \in Items : Len(ItemRuns(it)) >= 1

\* C26 (as the code has it): a line is a list item as soon as it starts with a
\* bullet marker, or digits and a dot, followed by one or more white-space
\* characters, whether or not text follows: a line such as "- " or "1. " is
\* grouped into a list, as a ListItem whose Paragraph has empty content; the
\* Paragraph of a ListItem is empty only for such a line.
C26_ItemTextOptional ==
    /\ \A it \in Items : (Len(ItemRuns(it)) = 0) <=> MarkerOnly(ItemLine(it))
    /\ pc \in {"top", "done"} =>
          \A k \in Consumed :
             (MarkerOnly(Line(k)) /\ ~InCode(k)) =>
                /\ Cardinality(BlocksOf(k)) = 1
                /\ \A j \in BlocksOf(k) : content[j].type \in {"bulletList", "orderedList"}

\* a returned document whose BulletList and OrderedList each hold an item with
\* an empty Paragraph next to an item with a run
C26_Witness ==
    /\ pc = "done"
    /\ Len(result.content) = 2
    /\ result.content[1].type = "bulletList"
    /\ Len(result.content[1].content) = 2
    /\ Len(result.content[1].content[1].content[1].content) = 1
    /\ result.content[1].content[2].content[1].content = << >>
    /\ result.content[2].type = "orderedList"
    /\ Len(result.content[2].content) = 2
    /\ result.content[2].content[1].content[1].content = << >>
    /\ Len(result.content[2].content[2].content[1].content) = 1

\* ---------------------------------------------------------------------------
\* Empty runs
\* ---------------------------------------------------------------------------

\* C27: the inline scanner never appends a Text run whose text is the empty
\* string: in every reachable state of parseInlineMarkdown, all runs collected
\* so far have non-empty text.
C27_NoEmptyRun == \A k \in 1..Len(nodes) : nodes[k].text # << >>

\* the blocks of content whose runs come from the scanner
ScannedBlocks == SelectSeq(content, LAMBDA b : b.type # "codeBlock")

\* the same for the runs the scanner has returned to the segmenter
C27_NoEmptyRunReturned ==
    /\ \A k \in 1..Len(BlocksRuns(ScannedBlocks)) : BlocksRuns(ScannedBlocks)[k].text # << >>
    /\ pc \in {"break", "done"} => C27_NoEmptyRun

\* ---------------------------------------------------------------------------
\* The two paths on text without markup
\* ---------------------------------------------------------------------------

\* line holds no *, backtick or [ and does not start with #, with a bullet
\* marker and white space, or with digits, a dot and white space
PlainText(line) ==
    /\ \A k \in 1..Len(line) : line[k] \notin {"*", BT, "["}
    /\ line # << >> => line[1] # "#"
    /\ ~(Len(line) >= 2 /\ line[1] \in {"*", "-", "+"} /\ line[2] \in WhiteSpace)
    /\ LET d == LeadingCount(line, Digits)
       IN  ~(d >= 1 /\ Len(line) >= d + 2 /\ line[d + 1] = "." /\ line[d + 2] \in WhiteSpace)

\* every line of the input is such a line
MarkupFree == \A k \in 1..Len(InputLines) : PlainText(InputLines[k])

\* C28: the two paths agree on markup-free text: for every input in which no
\* line contains *, a backtick or [ and no line starts with #, three backticks,
\* a bullet marker followed by white space, or digits followed by . and white
\* space, markdownToAdf(text) returns, and returns the Document textToAdf(text)
\* returns.
C28_PathsAgree ==
    (useMarkdown /\ MarkupFree) =>
       /\ pc # "aborted"
       /\ Halted => pc = "done"
       /\ pc = "done" => result = TextToAdf(markdown)

\* markdownToAdf has returned two Paragraphs for a markup-free text of three
\* lines, the middle one blank, one of the others starting with spaces
C28_Witness ==
    /\ pc = "done"
    /\ useMarkdown
    /\ MarkupFree
    /\ Len(InputLines) = 3
    /\ Kept = {1, 3}
    /\ Len(result.content) = 2
    /\ \E j \in 1..2 : result.content[j].content[1].text[1] = " "
    /\ result = TextToAdf(markdown)

\* ---------------------------------------------------------------------------
\* Line classification
\* ---------------------------------------------------------------------------

\* the tests of the outer loop that line passes
TestsPassed(line) ==
    (IF IsBlank(line) THEN {"blank"} ELSE {})
       \cup (IF HeadingMatch(line).matched THEN {"heading"} ELSE {})
       \cup (IF IsFence(line) THEN {"codeBlock"} ELSE {})
       \cup (IF BulletMatch(line) THEN {"bulletList"} ELSE {})
       \cup (IF OrderedMatch(line) THEN {"orderedList"} ELSE {})

\* C29: line classification is order-independent: for every line, at most one
\* of the five tests (blank, heading, code fence, bullet item, ordered item)
\* matches, so the fixed priority order in which the segmenter tries them never
\* changes which block a line produces: a line classified outside a fence gets
\* the block of the one test it passes, no block if that test is the blank one,
\* and a Paragraph if it passes none.
C29_OneTestPerLine ==
    /\ \A k \in 0..(Len(lines) - 1) : Cardinality(TestsPassed(Line(k))) <= 1
    /\ pc \in {"top", "done"} =>
          \A k \in Consumed :
             /\ IsFence(Line(k)) => InCode(k)
             /\ ~InCode(k) =>
                   /\ "blank" \in TestsPassed(Line(k)) => BlocksOf(k) = {}
                   /\ \A j \in BlocksOf(k) :
                         /\ \A t \in TestsPassed(Line(k)) : content[j].type = t
                         /\ TestsPassed(Line(k)) = {} => content[j].type = "paragraph"

\* a returned document for lines in which the prefix of one kind is followed by
\* that of another: each line got the block of its first characters
C29_Witness ==
    /\ pc = "done"
    /\ Len(lines) = 7
    /\ Len(result.content) = 7
    /\ \A k \in 0..2 : Cardinality(TestsPassed(Line(k))) = 1
    /\ [j \in 1..7 |-> result.content[j].type] =
          <<"heading", "bulletList", "orderedList", "paragraph", "paragraph",
            "paragraph", "paragraph">>

\* ---------------------------------------------------------------------------
\* Empty paragraphs
\* ---------------------------------------------------------------------------

\* b is a Heading or Paragraph with at least one node, all of them Text runs
HasRuns(b) ==
    /\ Len(b.content) >= 1
    /\ \A k \in 1..Len(b.content) : b.content[k].type = "text"

\* C30: in every Document returned by markdownToAdf, a top-level Paragraph with
\* empty content occurs only as the sole block of the document (the no-blocks
\* placeholder), and every Heading and every other top-level Paragraph has at
\* least one Text run.
C30_EmptyParagraphOnlyAlone ==
    /\ \A j \in 1..Len(origin) :
          content[j].type \in {"heading", "paragraph"} => HasRuns(content[j])
    /\ (pc = "done" /\ useMarkdown) =>
          \A j \in 1..Len(result.content) :
             result.content[j].type \in {"heading", "paragraph"} =>
                IF result.content[j].content = << >>
                THEN /\ result.content[j].type = "paragraph"
                     /\ Len(result.content) = 1
                     /\ origin = << >>
                ELSE HasRuns(result.content[j])

\* markdownToAdf has returned a Heading and a Paragraph, each with a run, for a
\* text that also has a blank line
C30_Witness ==
    /\ pc = "done"
    /\ useMarkdown
    /\ \E k \in 0..(Len(lines) - 1) : IsBlank(Line(k))
    /\ Len(result.content) = 2
    /\ result.content[1].type = "heading" /\ HasRuns(result.content[1])
    /\ result.content[2].type = "paragraph" /\ HasRuns(result.content[2])

====
